---- MODULE Spec2Model ----
(***************************************************************************)
(* A model of `same`, the duplicate-file finder: main's loop over the root *)
(* paths, walkAndProcess' walker callback driven by filepath.WalkDir,      *)
(* ProcessOneFile with its extended-attribute cache, and the duplicates    *)
(* report.  Paths are sequences of one-character strings so that lengths,  *)
(* base names and prefixes are computed, not tabulated.                    *)
(***************************************************************************)
EXTENDS Integers, Sequences, FiniteSets, TLC

VARIABLES
    paths,          \* flag.Args(): the root paths of the run
    hashAlgo,       \* -a
    recursiveFlag,  \* -r
    followLinksFlag,\* -l
    storeXattr,     \* -X
    recreateXattr,  \* -Y
    duplicatesFlag, \* -d
    skipZeroSized,  \* -z
    noShowHashes,   \* -n
    noDot,          \* -N
    verboseFlag,    \* -v
    showTimeFlag,   \* -t
    debugFlag,      \* -DEBUG
    content,        \* file system: the bytes of each regular file
    fault,          \* file system: the one system call that fails, if any
    xattr,          \* file system: the stored hash attribute of each file
    xattr0,         \* the attributes as they were before the first run
    run,            \* which invocation of the program this is
    pc,             \* "roots", "walk", "done"
    rootIdx,        \* index in paths of the next root of main's loop
    walkRoot,       \* walkAndProcess' path argument
    todo,           \* WalkDir: the entries still to be handed to the walker
    filesByHash,    \* the duplicate index
    fileCount,      \* processedFileCount
    events,         \* what the run did to the outside world, as a set
    lastCall,       \* the ProcessOneFile call the latest step made, if any
    printed,        \* the duplicates report: per hash, the lines printed
    debugOut,       \* the lines debug mode printed, in order
    progressOut,    \* the progress marks -v printed, in order
    timeOut         \* whether the end time and the elapsed time were printed

vars == <<paths, hashAlgo, recursiveFlag, followLinksFlag, storeXattr,
          recreateXattr, duplicatesFlag, skipZeroSized, noShowHashes, noDot,
          verboseFlag, showTimeFlag, debugFlag, content, fault, xattr, xattr0,
          run, pc, rootIdx, walkRoot, todo, filesByHash, fileCount, events,
          lastCall, printed, debugOut, progressOut, timeOut>>

config == <<paths, hashAlgo, recursiveFlag, followLinksFlag, storeXattr,
            recreateXattr, duplicatesFlag, skipZeroSized, noShowHashes, noDot,
            verboseFlag, showTimeFlag, debugFlag, content, fault, xattr0>>

(***************************************************************************)
(* Bounds                                                                  *)
(***************************************************************************)
MaxRoots == 2
MaxRuns == 2

(***************************************************************************)
(* Path strings                                                            *)
(***************************************************************************)
Slash == "/"
DotSlash == <<".", "/">>

HasPrefix(s, pre) ==
    /\ Len(s) >= Len(pre)
    /\ SubSeq(s, 1, Len(pre)) = pre

TrimPrefix(s, pre) ==
    IF HasPrefix(s, pre) THEN SubSeq(s, Len(pre) + 1, Len(s)) ELSE s

\* filepath.Clean, for the paths of this model: a leading "./" is dropped.
RECURSIVE Clean(_)
Clean(p) ==
    IF HasPrefix(p, DotSlash) /\ Len(p) > 2 THEN Clean(TrimPrefix(p, DotSlash))
    ELSE p

\* filepath.Join of a directory and an entry name.
Join(dir, name) == Clean(dir \o <<Slash>> \o name)

\* filepath.Base: what follows the final separator.
RECURSIVE Base(_)
Base(p) ==
    IF p = <<>> THEN <<".">>
    ELSE IF p[Len(p)] = Slash /\ Len(p) > 1 THEN Base(SubSeq(p, 1, Len(p) - 1))
    ELSE IF \E i \in 1..Len(p) : p[i] = Slash /\ Len(p) > 1
         THEN LET last == CHOOSE i \in 1..Len(p) :
                              /\ p[i] = Slash
                              /\ \A j \in (i + 1)..Len(p) : p[j] # Slash
              IN  SubSeq(p, last + 1, Len(p))
    ELSE p

(***************************************************************************)
(* The file system the runs work on                                        *)
(***************************************************************************)
pD    == <<"d">>
pDds  == <<"d", "/", ".", "D", "S", "_", "S", "t", "o", "r", "e">>
pDi   == <<"d", "/", "I", "c", "o", "n", "\r">>
pDih  == <<"d", "/", "I", "c", "o", "n", "\r", "/", "h">>
pDa   == <<"d", "/", "a">>
pDbb  == <<"d", "/", "b", "b">>
pDk   == <<"d", "/", "k">>
pDl   == <<"d", "/", "l">>
pDs   == <<"d", "/", "s">>
pDsc  == <<"d", "/", "s", "/", "c">>
pDx   == <<"d", "/", "x">>
pE    == <<"e">>
pEfff == <<"e", "/", "f", "f", "f">>
pG    == <<"g">>
pM    == <<"m">>
pN    == <<"n">>
pGone == <<"d", "/", "g", "o", "n", "e">>
pDotG == <<".", "/", "g">>

Dirs == {pD, pDi, pDs, pE}
Regulars == {pDds, pDih, pDa, pDbb, pDsc, pEfff, pG}
Symlinks == {pDk, pDl, pDx, pM, pN}
Nodes == Dirs \cup Regulars \cup Symlinks

\* readlink: where each symbolic link points.
LinkTarget(l) ==
    CASE l = pDk -> pE
      [] l = pDl -> pDa
      [] l = pDx -> pGone
      [] l = pM  -> pE
      [] l = pN  -> pDds

\* os.ReadDir: the names in a directory, sorted by name.
DirNames(d) ==
    CASE d = pD  -> << <<".", "D", "S", "_", "S", "t", "o", "r", "e">>,
                       <<"I", "c", "o", "n", "\r">>, <<"a">>,
                       <<"b", "b">>, <<"k">>, <<"l">>, <<"s">>, <<"x">> >>
      [] d = pDi -> << <<"h">> >>
      [] d = pDs -> << <<"c">> >>
      [] d = pE  -> << <<"f", "f", "f">> >>

Empty == <<>>
Bytes == {Empty, <<"A">>, <<"B">>}

\* The contents the files may have: all alike but one, or two of them empty.
Contents ==
    { [f \in Regulars |-> IF f = pDbb THEN <<"B">> ELSE <<"A">>],
      [f \in Regulars |-> IF f \in {pDa, pG} THEN Empty ELSE <<"A">>] }

NoFault == <<"none", Empty>>
Faults ==
    {NoFault}
    \cup {<<"lstat", n>> : n \in {pD}}
    \cup {<<"readdir", n>> : n \in {pDs}}
    \cup {<<"info", n>> : n \in {pDa, pDl}}
    \cup {<<"stat", n>> : n \in {pDa, pE}}
    \cup {<<"open", n>> : n \in {pDa}}
    \cup {<<"xattrget", n>> : n \in {pDa}}
    \cup {<<"xattrset", n>> : n \in {pDa}}

Fails(call, n) == fault = <<call, n>>

(***************************************************************************)
(* Digest provider                                                         *)
(***************************************************************************)
SupportedAlgos ==
    {"md4", "md5", "sha1", "sha224", "sha256", "sha384", "sha512", "ripemd160",
     "sha3-224", "sha3-256", "sha3-384", "sha3-512", "blake2b", "shake128",
     "shake256"}

\* The algorithm names given on the command line in this model.
Algos == {"SHA256", "sha1x"}

\* strings.ToLower on those names.
ToLower(a) == IF a = "SHA256" THEN "sha256" ELSE a

\* getHash returns an accumulator (TRUE) or the unsupported-algorithm error.
getHash(algo) == ToLower(algo) \in SupportedAlgos

\* The hex digest of some bytes: collision-free, and different per algorithm.
Digest(algo, bytes) == <<ToLower(algo)>> \o bytes

ZeroKey == <<"0-byte-file">>
NoAttr == <<"no attribute">>
StaleValue == <<"sha256", "S">>

hashFile(filePath, algo) ==
    LET n == Clean(filePath)
        sel == {<<"getHash", filePath>>}
        opn == {<<"open", filePath>>}
    IN  IF ~getHash(algo)
        THEN [err |-> TRUE, hash |-> Empty, ev |-> sel]
        ELSE IF Fails("open", n)
        THEN [err |-> TRUE, hash |-> Empty, ev |-> sel \cup opn]
        ELSE [err |-> FALSE, hash |-> Digest(algo, content[n]),
              ev |-> sel \cup opn \cup {<<"digest", filePath>>}]

(***************************************************************************)
(* Output                                                                  *)
(***************************************************************************)
\* if debugFlag { verboseFlag = false; showTimeFlag = false;
\* duplicatesFlag = false }: the value main goes on with.
DebugOverride(flag, debug) == IF debug THEN FALSE ELSE flag

\* "Using hashing algorithm: ..." opens the output of debug mode.
Banner(debug, algo) ==
    IF debug THEN <<[kind |-> "banner", hash |-> Empty, path |-> <<algo>>]>>
    ELSE <<>>

\* if verbose { fmt.Printf(c) }
Mark(c) == IF DebugOverride(verboseFlag, debugFlag) THEN <<c>> ELSE <<>>

\* if debugFlag { fmt.Printf("%s %s\n", fileHash, filePath) }
DebugLine(fileHash, filePath) ==
    IF debugFlag
    THEN <<[kind |-> "file", hash |-> fileHash, path |-> filePath]>>
    ELSE <<>>

(***************************************************************************)
(* ProcessOneFile                                                          *)
(***************************************************************************)
InsertFront(index, key, path) ==
    IF key \in DOMAIN index
    THEN [index EXCEPT ![key] = <<path>> \o @]
    ELSE index @@ (key :> <<path>>)

\* filesByHash[key] = append(filesByHash[key], path)
Insert(index, key, path) ==
    IF key \in DOMAIN index
    THEN [index EXCEPT ![key] = Append(@, path)]
    ELSE index @@ (key :> <<path>>)

IsZeroSizedAlways(n) == TRUE

IsZeroSizedNever(n) == FALSE

\* info.Size() == 0
IsZeroSized(n) == Len(content[n]) = 0

\* if storeXattr || recreateXattr
UsesXattr(store, recreate) == store \/ recreate

ReadsXattrStoreWins(store, recreate) == store

\* if storeXattr && !recreateXattr
ReadsXattr(store, recreate) == store /\ ~recreate

XattrGetNever(n) == FALSE

\* xattr.Get succeeded
XattrGetOk(n) == xattr[n] # NoAttr /\ ~Fails("xattrget", n)

XattrSetIfAbsent(attrs, filePath, value) ==
    [attrs |-> IF attrs[Clean(filePath)] = NoAttr
               THEN [attrs EXCEPT ![Clean(filePath)] = value]
               ELSE attrs,
     ev |-> {<<"xattrset", filePath>>}]

\* xattr.Set: the attributes afterwards, and what was logged on failure.
XattrSet(attrs, filePath, value) ==
    LET n == Clean(filePath) IN
    IF Fails("xattrset", n)
    THEN [attrs |-> attrs,
          ev |-> {<<"xattrset", filePath>>, <<"logXattr", filePath>>}]
    ELSE [attrs |-> [attrs EXCEPT ![n] = value],
          ev |-> {<<"xattrset", filePath>>}]

\* The state a call leaves: the index, the counter, the attributes, the
\* events it adds, and what it prints.
Keep(evs) ==
    [index |-> filesByHash, count |-> fileCount, attrs |-> xattr, ev |-> evs,
     call |-> Empty, out |-> <<>>, bar |-> <<>>]

\* The hash is known: add the file to the index and count it.
Inserted(r, key, filePath) ==
    [r EXCEPT !.index = Insert(@, key, filePath), !.count = @ + 1]

\* What follows the insertion of a file that is not empty: the progress mark
\* and the line of debug mode.
Announced(r, key, filePath) ==
    [r EXCEPT !.bar = @ \o Mark("="), !.out = @ \o DebugLine(key, filePath)]

HashAndInsertAnyway(filePath, algo, write, evs) ==
    LET h == hashFile(filePath, algo) IN
    Inserted(Keep(evs \cup h.ev \cup {<<"logHash", filePath>>}), h.hash, filePath)

\* The branches that compute the hash; write says whether it is stored.
HashAndInsert(filePath, algo, write, evs) ==
    LET h == hashFile(filePath, algo) IN
    IF h.err
    THEN Keep(evs \cup h.ev \cup {<<"logHash", filePath>>})
    ELSE IF write
    THEN LET w == XattrSet(xattr, filePath, h.hash) IN
         Announced(Inserted([Keep(evs \cup h.ev \cup w.ev)
                                EXCEPT !.attrs = w.attrs], h.hash, filePath),
                   h.hash, filePath)
    ELSE Announced(Inserted(Keep(evs \cup h.ev), h.hash, filePath),
                   h.hash, filePath)

ProcessOneFile(filePath, store, recreate, algo) ==
    LET n == Clean(filePath)
        st == {<<"process", filePath>>, <<"stat", filePath>>}
        r == IF Fails("stat", n)
             THEN [Keep(st \cup {<<"logStat", filePath>>})
                      EXCEPT !.count = @ + 1, !.bar = Mark("!")]
             ELSE IF IsZeroSized(n)
             THEN [Inserted(Keep(st), ZeroKey, filePath) EXCEPT !.bar = Mark(".")]
             ELSE IF UsesXattr(store, recreate)
             THEN IF ReadsXattr(store, recreate)
                  THEN IF XattrGetOk(n)
                       THEN Announced(
                                Inserted(Keep(st \cup {<<"xattrget", filePath>>}),
                                         xattr[n], filePath),
                                xattr[n], filePath)
                       ELSE HashAndInsert(filePath, algo, TRUE,
                                          st \cup {<<"xattrget", filePath>>})
                  ELSE IF recreate
                  THEN HashAndInsert(filePath, algo, TRUE, st)
                  ELSE Announced(Inserted(Keep(st), Empty, filePath),
                                 Empty, filePath)
             ELSE HashAndInsert(filePath, algo, FALSE, st)
    IN  [r EXCEPT !.call = filePath]

(***************************************************************************)
(* walkAndProcess                                                          *)
(***************************************************************************)
Housekeeping ==
    { <<".", "D", "S", "_", "S", "t", "o", "r", "e">>,
      <<"I", "c", "o", "n", "\r">> }

\* filepath.EvalSymlinks: the path with every link followed.
RECURSIVE EvalSymlinks(_)
EvalSymlinks(p) ==
    IF Clean(p) \in Symlinks THEN EvalSymlinks(LinkTarget(Clean(p))) ELSE Clean(p)

\* EvalSymlinks fails when the path it arrives at does not exist.
EvalFails(p) == EvalSymlinks(p) \notin Nodes

\* if !recursive && walkerPath != path
PrunesDir(walkerPath, root, recursive) == ~recursive /\ walkerPath # root

FollowsLinkAlways(followLinks) == TRUE

\* A symlink met by the walker, or given as a root: it is looked at only
\* when links are followed.
FollowsLink(followLinks) == followLinks

\* if !resolvedInfo.IsDir()
ResolvedIsFile(resolved) == resolved \notin Dirs

\* What the walker returns, with the state its call leaves.
Ret(ret, r) == [ret |-> ret, r |-> r]

\* The walker callback, called with a nil error.
walker(walkerPath) ==
    LET n == Clean(walkerPath)
        visit == {<<"visit", walkerPath>>}
    IN  IF Fails("info", n) /\ walkerPath # walkRoot
        THEN Ret("err", Keep(visit))
        ELSE IF Base(walkerPath) \in Housekeeping
        THEN Ret("nil", Keep(visit))
        ELSE IF n \in Dirs
        THEN IF PrunesDir(walkerPath, walkRoot, recursiveFlag)
             THEN Ret("SkipDir", Keep(visit))
             ELSE Ret("nil", Keep(visit))
        ELSE IF n \in Symlinks
        THEN IF FollowsLink(followLinksFlag)
             THEN LET resolvedPath == EvalSymlinks(walkerPath) IN
                  IF EvalFails(walkerPath)
                  THEN Ret("nil", Keep(visit \cup {<<"logLink", walkerPath>>}))
                  ELSE IF Fails("stat", resolvedPath)
                  THEN Ret("nil", Keep(visit \cup {<<"stat", resolvedPath>>,
                                                   <<"logStat", resolvedPath>>}))
                  ELSE IF ResolvedIsFile(resolvedPath)
                  THEN LET r == ProcessOneFile(resolvedPath, storeXattr,
                                               recreateXattr, hashAlgo)
                       IN  Ret("nil", [r EXCEPT !.ev = @ \cup visit
                                          \cup {<<"follow", walkerPath>>}])
                  ELSE Ret("nil", Keep(visit \cup {<<"stat", resolvedPath>>}))
             ELSE Ret("nil", Keep(visit))
        ELSE LET r == ProcessOneFile(walkerPath, storeXattr, recreateXattr,
                                     hashAlgo)
             IN  Ret("nil", [r EXCEPT !.ev = @ \cup visit])

\* The entries WalkDir reads in a directory, as the paths it hands on.
ReadDir(dir) ==
    LET names == DirNames(Clean(dir)) IN
    [i \in 1..Len(names) |-> Join(dir, names[i])]

NoCall == [path |-> Empty, kinds |-> {}, via |-> Empty]

\* The state a call leaves becomes the next state.
Apply(r) ==
    /\ filesByHash' = r.index
    /\ fileCount' = r.count
    /\ xattr' = r.attrs
    /\ events' = events \cup r.ev
    /\ debugOut' = debugOut \o r.out
    /\ progressOut' = progressOut \o r.bar
    /\ lastCall' = IF r.call = Empty THEN NoCall
               ELSE [path |-> r.call,
                     kinds |-> {e[1] : e \in r.ev},
                     via |-> IF \E e \in r.ev : e[1] = "follow"
                             THEN (CHOOSE e \in r.ev : e[1] = "follow")[2]
                             ELSE Empty]

(***************************************************************************)
(* main: the loop over the roots                                           *)
(***************************************************************************)
\* One iteration of `for _, path := range paths`.
MainRoot ==
    /\ pc = "roots"
    /\ rootIdx <= Len(paths)
    /\ rootIdx' = rootIdx + 1
    /\ LET path == paths[rootIdx]
           n == Clean(path)
           ls == {<<"lstat", path>>}
           stay(evs) == /\ Apply(Keep(evs))
                        /\ UNCHANGED <<pc, walkRoot, todo>>
           dispatch(p, evs) ==
               IF Clean(p) \in Dirs
               THEN /\ Apply(Keep(evs \cup {<<"walk", p>>}))
                    /\ pc' = "walk"
                    /\ walkRoot' = p
                    /\ todo' = <<p>>
               ELSE /\ Apply([ProcessOneFile(p, storeXattr, recreateXattr,
                                             hashAlgo)
                                 EXCEPT !.ev = @ \cup evs])
                    /\ UNCHANGED <<pc, walkRoot, todo>>
       IN  IF Fails("lstat", n) \/ n \notin Nodes
           THEN stay(ls \cup {<<"logRoot", path>>})
           ELSE IF n \in Symlinks
           THEN IF FollowsLink(followLinksFlag)
                THEN IF EvalFails(path)
                     THEN stay(ls \cup {<<"logRoot", path>>})
                     ELSE IF Fails("stat", EvalSymlinks(path))
                     THEN stay(ls \cup {<<"stat", EvalSymlinks(path)>>,
                                        <<"logRoot", path>>})
                     ELSE dispatch(EvalSymlinks(path),
                                   ls \cup {<<"stat", EvalSymlinks(path)>>,
                                            <<"follow", path>>})
                ELSE stay(ls)
           ELSE dispatch(path, ls)
    /\ UNCHANGED <<config, run, printed, timeOut>>

\* filepath.WalkDir hands the next entry to the walker and goes on from what
\* the walker returns.
WalkStep ==
    /\ pc = "walk"
    /\ todo # <<>>
    /\ LET e == Head(todo)
           rest == Tail(todo)
           w == walker(e)
           isDir == Clean(e) \in Dirs
           next == IF w.ret = "err" THEN <<>>
                   ELSE IF w.ret = "SkipDir" \/ ~isDir THEN rest
                   ELSE IF Fails("readdir", Clean(e)) THEN rest
                   ELSE ReadDir(e) \o rest
           evs == IF w.ret = "nil" /\ isDir
                  THEN IF Fails("readdir", Clean(e))
                       THEN {<<"readdir", e>>, <<"logWalk", e>>}
                       ELSE {<<"readdir", e>>}
                  ELSE {}
       IN  /\ Apply([w.r EXCEPT !.ev = @ \cup evs])
           /\ todo' = next
           /\ pc' = IF next = <<>> THEN "roots" ELSE "walk"
    /\ UNCHANGED <<config, run, rootIdx, walkRoot, printed, timeOut>>

(***************************************************************************)
(* main: the report                                                        *)
(***************************************************************************)
\* The comparison sort.Slice is given.
Less(a, b) ==
    IF Len(a) # Len(b) THEN Len(a) < Len(b)
    ELSE Len(Base(a)) < Len(Base(b))

\* The members no other member sorts before.
Firsts(s) ==
    {s[i] : i \in {k \in 1..Len(s) : \A j \in 1..Len(s) : ~Less(s[j], s[k])}}

\* s without the first occurrence of v.
RemoveOne(s, v) ==
    LET i == CHOOSE k \in 1..Len(s) : s[k] = v /\ \A j \in 1..(k - 1) : s[j] # v
    IN  SubSeq(s, 1, i - 1) \o SubSeq(s, i + 1, Len(s))

\* sort.Slice is not stable: any order of the elements that the comparison
\* allows can be the result.
RECURSIVE SortOutcomes(_)
SortOutcomes(s) ==
    IF s = <<>> THEN {<<>>}
    ELSE UNION {{<<m>> \o t : t \in SortOutcomes(RemoveOne(s, m))} : m \in Firsts(s)}

\* The members as short as the first one, in path and in base name.
ShortestPaths(sorted) ==
    SelectSeq(sorted, LAMBDA p : /\ Len(p) = Len(sorted[1])
                                 /\ Len(Base(p)) = Len(Base(sorted[1])))

\* The path as it is compared and printed.
Shown(p, strip) == IF strip THEN TrimPrefix(p, DotSlash) ELSE p

\* for _, sp := range shortestPaths { if p == sp ... }
IsShortest(p, shortest, strip) ==
    \E i \in 1..Len(shortest) : Shown(p, strip) = shortest[i]

\* What the -d report does with each member of a sorted bucket.
DuplicateLines(sorted, strip) ==
    LET shortest == ShortestPaths(sorted) IN
    [i \in 1..Len(sorted) |->
        [path |-> sorted[i],
         text |-> Shown(sorted[i], strip),
         how  |-> IF Len(shortest) > 1 /\ IsShortest(sorted[i], shortest, strip)
                  THEN "marked"
                  ELSE IF Len(shortest) = 1
                          /\ IsShortest(sorted[i], shortest, strip)
                  THEN "omitted"
                  ELSE "plain"]]

\* What the -v report does with each member of a bucket.
PlainLines(members, strip) ==
    [i \in 1..Len(members) |->
        [path |-> members[i], text |-> Shown(members[i], strip), how |-> "plain"]]

ReportedSingles(index, skipZero) ==
    {h \in DOMAIN index : ~(h = ZeroKey /\ skipZero) /\ Len(index[h]) > 0}

\* The buckets a report lists.
Reported(index, skipZero) ==
    {h \in DOMAIN index : /\ ~(h = ZeroKey /\ skipZero)
                          /\ Len(index[h]) > 1}

Report ==
    /\ pc = "roots"
    /\ rootIdx > Len(paths)
    /\ pc' = "done"
    /\ LET groups == Reported(filesByHash, skipZeroSized) IN
       IF DebugOverride(duplicatesFlag, debugFlag)
       THEN \E srt \in [groups -> UNION {SortOutcomes(filesByHash[h]) : h \in groups}] :
               /\ \A h \in groups : srt[h] \in SortOutcomes(filesByHash[h])
               /\ filesByHash' = [h \in DOMAIN filesByHash |->
                                     IF h \in groups THEN srt[h] ELSE filesByHash[h]]
               /\ printed' = [h \in groups |->
                                 [label |-> ~noShowHashes,
                                  lines |-> DuplicateLines(srt[h], noDot)]]
       ELSE IF DebugOverride(verboseFlag, debugFlag)
       THEN /\ printed' = [h \in groups |->
                              [label |-> ~noShowHashes,
                               lines |-> PlainLines(filesByHash[h], noDot)]]
            /\ UNCHANGED filesByHash
       ELSE UNCHANGED <<filesByHash, printed>>
    /\ timeOut' = DebugOverride(showTimeFlag, debugFlag)
    /\ lastCall' = NoCall
    /\ UNCHANGED <<config, run, rootIdx, walkRoot, todo, fileCount, xattr, events,
                   debugOut, progressOut>>

(***************************************************************************)
(* The program is run again, with the same arguments, on the file system   *)
(* the previous run left.                                                  *)
(***************************************************************************)
NoIndex == <<>>

Restart ==
    /\ pc = "done"
    /\ run < MaxRuns
    /\ run' = run + 1
    /\ pc' = "roots"
    /\ rootIdx' = 1
    /\ walkRoot' = Empty
    /\ todo' = <<>>
    /\ filesByHash' = NoIndex
    /\ fileCount' = 0
    /\ events' = {}
    /\ lastCall' = NoCall
    /\ printed' = NoIndex
    /\ debugOut' = Banner(debugFlag, hashAlgo)
    /\ progressOut' = <<>>
    /\ timeOut' = FALSE
    /\ UNCHANGED <<config, xattr>>

Next == MainRoot \/ WalkStep \/ Report \/ Restart

(***************************************************************************)
(* Initial states                                                          *)
(***************************************************************************)
RootLists(args) ==
    UNION {[1..k -> args] : k \in 1..MaxRoots}

\* The attribute one file may carry before the first run: none, the digest
\* of its content, a digest of other content, or the zero-length key.
Presets ==
    { [f \in Regulars |-> IF f = pDa THEN v ELSE NoAttr] :
        v \in {NoAttr, Digest(hashAlgo, content[pDa]), StaleValue, ZeroKey} }

\* The state of a process that has parsed its flags.
Start ==
    /\ xattr = xattr0
    /\ run = 1
    /\ pc = "roots"
    /\ rootIdx = 1
    /\ walkRoot = Empty
    /\ todo = <<>>
    /\ filesByHash = NoIndex
    /\ fileCount = 0
    /\ events = {}
    /\ lastCall = NoCall
    /\ printed = NoIndex
    /\ debugOut = Banner(debugFlag, hashAlgo)
    /\ progressOut = <<>>
    /\ timeOut = FALSE

WalkArgs == {pD, pDds, pDa, pDotG, pM, pN}
CacheArgs == {pD, pDa}
ReportArgs == {pD, pDs, pE, pG, pDotG}

\* Traversal: any roots, any fault, no cache.
Init ==
    /\ paths \in RootLists(WalkArgs)
    /\ hashAlgo = "SHA256"
    /\ recursiveFlag \in BOOLEAN
    /\ followLinksFlag \in BOOLEAN
    /\ storeXattr = FALSE
    /\ recreateXattr = FALSE
    /\ duplicatesFlag = TRUE
    /\ skipZeroSized = FALSE
    /\ noShowHashes = FALSE
    /\ noDot = FALSE
    /\ verboseFlag = FALSE
    /\ showTimeFlag = FALSE
    /\ debugFlag = FALSE
    /\ content \in Contents
    /\ fault \in {f \in Faults : f[1] \notin {"xattrget", "xattrset"}}
    /\ xattr0 = [f \in Regulars |-> NoAttr]
    /\ Start

Spec == Init /\ [][Next]_vars

\* The attribute cache: every policy, every preset attribute.
InitCache ==
    /\ paths \in RootLists(CacheArgs)
    /\ hashAlgo \in Algos
    /\ recursiveFlag = FALSE
    /\ followLinksFlag = FALSE
    /\ storeXattr \in BOOLEAN
    /\ recreateXattr \in BOOLEAN
    /\ duplicatesFlag = TRUE
    /\ skipZeroSized \in BOOLEAN
    /\ noShowHashes = FALSE
    /\ noDot = FALSE
    /\ verboseFlag = FALSE
    /\ showTimeFlag = FALSE
    /\ debugFlag = FALSE
    /\ content \in Contents
    /\ fault \in {f \in Faults : f[1] \in {"none", "stat", "open", "xattrget", "xattrset"}}
    /\ xattr0 \in Presets
    /\ Start

SpecCache == InitCache /\ [][Next]_vars

\* The report: every report option.
InitReport ==
    /\ paths \in RootLists(ReportArgs)
    /\ hashAlgo = "SHA256"
    /\ recursiveFlag = TRUE
    /\ followLinksFlag = FALSE
    /\ storeXattr = FALSE
    /\ recreateXattr = FALSE
    /\ duplicatesFlag \in BOOLEAN
    /\ skipZeroSized \in BOOLEAN
    /\ noShowHashes \in BOOLEAN
    /\ noDot \in BOOLEAN
    /\ verboseFlag \in BOOLEAN
    /\ showTimeFlag = TRUE
    /\ debugFlag \in BOOLEAN
    /\ content \in Contents
    /\ fault = NoFault
    /\ xattr0 = [f \in Regulars |-> NoAttr]
    /\ Start

SpecReport == InitReport /\ [][Next]_vars

(***************************************************************************)
(* Properties                                                              *)
(***************************************************************************)
\* The paths of the index, bucket by bucket, as (hash, position) pairs.
Slots(index) ==
    UNION {{<<h, i>> : i \in 1..Len(index[h])} : h \in DOMAIN index}

Members(index) == {index[hi[1]][hi[2]] : hi \in Slots(index)}

Occurrences(index, p) ==
    Cardinality({hi \in Slots(index) : index[hi[1]][hi[2]] = p})

\* What the calls of hashFile, os.Open and the attribute cache leave behind.
HashKinds == {"getHash", "open", "digest"}
CacheKinds == {"xattrget", "xattrset"}

Called == lastCall.path # Empty
CalledNext == lastCall'.path # Empty

\* C1: with an algorithm name that is not supported, the run touches nothing:
\* no root is lstat'ed, no entry visited, no file opened, counted or inserted.
C1_UnsupportedFailsBeforeTraversal ==
    ~getHash(hashAlgo) =>
        /\ events = {}
        /\ fileCount = 0
        /\ filesByHash = NoIndex

\* C2: no path occurs more than once in the whole index.
C2_PathAtMostOnce ==
    \A p \in Members(filesByHash) : Occurrences(filesByHash, p) <= 1

\* C3: a call of ProcessOneFile that tries to hash a non-empty file and fails
\* logs the error and leaves the index as it was, under every cache policy.
C3_HashErrorNotInserted ==
    [][(/\ CalledNext
        /\ "getHash" \in lastCall'.kinds
        /\ hashFile(lastCall'.path, hashAlgo).err)
       => (/\ "logHash" \in lastCall'.kinds
           /\ filesByHash' = filesByHash
           /\ Empty \notin DOMAIN filesByHash')]_vars

C3_Witness ==
    /\ Called
    /\ "getHash" \in lastCall.kinds
    /\ hashFile(lastCall.path, hashAlgo).err
    /\ storeXattr
    /\ Fails("open", Clean(lastCall.path))

\* C4: a call of ProcessOneFile on a file of length 0 appends the path to the
\* "0-byte-file" bucket, and neither opens the file, nor selects a digest,
\* nor reads or writes the attribute cache, for every algorithm and policy.
C4_ZeroLengthShortCircuit ==
    [][(/\ CalledNext
        /\ ~Fails("stat", Clean(lastCall'.path))
        /\ Len(content[Clean(lastCall'.path)]) = 0)
       => (/\ filesByHash' = Insert(filesByHash, ZeroKey, lastCall'.path)
           /\ lastCall'.kinds \cap (HashKinds \cup CacheKinds) = {}
           /\ xattr' = xattr)]_vars

C4_Witness ==
    /\ Called
    /\ Len(content[Clean(lastCall.path)]) = 0
    /\ ZeroKey \in DOMAIN filesByHash
    /\ storeXattr
    /\ ~getHash(hashAlgo)

\* The file a call of ProcessOneFile is about, and what the call finds.
CallFile == Clean(lastCall'.path)
CallKinds == lastCall'.kinds
CallNonEmpty ==
    /\ CalledNext
    /\ ~Fails("stat", CallFile)
    /\ Len(content[CallFile]) > 0
CallDigest == Digest(hashAlgo, content[CallFile])
StoreOnly == storeXattr /\ ~recreateXattr

\* The first run leaves the attribute equal to the digest of the content.
FirstRunStores == xattr'[CallFile] = CallDigest

\* A later run takes the attribute as the hash: nothing is hashed, the file
\* goes in the bucket of the stored value, the stored value stays.
LaterRunHits ==
    /\ "xattrget" \in CallKinds
    /\ CallKinds \cap HashKinds = {}
    /\ filesByHash' = Insert(filesByHash, xattr[CallFile], lastCall'.path)
    /\ xattr' = xattr

\* C5 as claimed: under UseCacheThenStore (and a supported algorithm), a
\* non-empty file that had no attribute gets one equal to its digest when the
\* first run processes it, and a second run takes the cache-hit path for it.
C5_StoreThenHit ==
    [][(CallNonEmpty /\ StoreOnly /\ getHash(hashAlgo) /\ xattr0[CallFile] = NoAttr)
       => (/\ run = 1 => FirstRunStores
           /\ run > 1 => LaterRunHits)]_vars

\* C5 amended: the same, for a file whose hashing and attribute write succeed
\* in the first run and whose attribute read succeeds in the second.
C5_StoreThenHitWhenCallsSucceed ==
    [][(/\ CallNonEmpty /\ StoreOnly /\ xattr0[CallFile] = NoAttr
        /\ ~hashFile(lastCall'.path, hashAlgo).err
        /\ ~Fails("xattrset", CallFile))
       => (/\ run = 1 => FirstRunStores
           /\ (run > 1 /\ ~Fails("xattrget", CallFile)) => LaterRunHits)]_vars

C5_Witness ==
    /\ run = 2
    /\ Called
    /\ StoreOnly
    /\ xattr0[Clean(lastCall.path)] = NoAttr
    /\ Len(content[Clean(lastCall.path)]) > 0
    /\ "xattrget" \in lastCall.kinds
    /\ "getHash" \notin lastCall.kinds
    /\ xattr[Clean(lastCall.path)] = Digest(hashAlgo, content[Clean(lastCall.path)])

\* C6 as claimed: under AlwaysRecompute, after a call that hashed a non-empty
\* file the attribute equals the new digest, whatever it was, and the file is
\* in the bucket of the new digest.
C6_RecreateOverwrites ==
    [][(CallNonEmpty /\ recreateXattr /\ ~hashFile(lastCall'.path, hashAlgo).err)
       => (/\ xattr'[CallFile] = CallDigest
           /\ filesByHash' = Insert(filesByHash, CallDigest, lastCall'.path))]_vars

\* C6 amended: the attribute equals the new digest when the attribute write
\* succeeds; when it fails the failure is logged and the attribute keeps its
\* value.  Either way the file is in the bucket of the new digest and the
\* attribute is not read.
C6_RecreateOverwritesWhenWritable ==
    [][(CallNonEmpty /\ recreateXattr /\ ~hashFile(lastCall'.path, hashAlgo).err)
       => (/\ IF Fails("xattrset", CallFile)
              THEN xattr' = xattr /\ "logXattr" \in CallKinds
              ELSE xattr'[CallFile] = CallDigest
           /\ "xattrget" \notin CallKinds
           /\ filesByHash' = Insert(filesByHash, CallDigest, lastCall'.path))]_vars

C6_Witness ==
    /\ Called
    /\ recreateXattr
    /\ xattr0[Clean(lastCall.path)] = StaleValue
    /\ xattr[Clean(lastCall.path)] = Digest(hashAlgo, content[Clean(lastCall.path)])
    /\ xattr[Clean(lastCall.path)] # StaleValue
    /\ Digest(hashAlgo, content[Clean(lastCall.path)]) \in DOMAIN filesByHash

\* What a call of ProcessOneFile itself does, as kinds of event.
OwnKinds == HashKinds \cup CacheKinds \cup {"logHash", "logXattr", "logStat"}

\* C7: the attribute is read only with store and without recreate, written
\* only with store or recreate, untouched with neither, and with both flags
\* a call does exactly what it does with recreate alone.
C7_CachePolicyFrame ==
    [][/\ ~CalledNext => xattr' = xattr
       /\ CalledNext =>
            /\ "xattrget" \in CallKinds => (storeXattr /\ ~recreateXattr)
            /\ "xattrset" \in CallKinds => (storeXattr \/ recreateXattr)
            /\ xattr' # xattr => (storeXattr \/ recreateXattr)
            /\ (~storeXattr /\ ~recreateXattr) =>
                   (CallKinds \cap CacheKinds = {} /\ xattr' = xattr)
            /\ (storeXattr /\ recreateXattr) =>
                   LET alone == ProcessOneFile(lastCall'.path, FALSE, TRUE, hashAlgo)
                   IN  /\ filesByHash' = alone.index
                       /\ fileCount' = alone.count
                       /\ xattr' = alone.attrs
                       /\ CallKinds \cap OwnKinds
                            = {e[1] : e \in alone.ev} \cap OwnKinds]_vars

C7_Witness ==
    /\ Called
    /\ storeXattr
    /\ recreateXattr
    /\ xattr0[Clean(lastCall.path)] = StaleValue
    /\ "xattrset" \in lastCall.kinds
    /\ "xattrget" \notin lastCall.kinds

\* The members of a reported bucket that no other member sorts before: those
\* tied for the shortest path and, among these, the shortest base name.
Tied(lines) ==
    {i \in 1..Len(lines) :
        \A j \in 1..Len(lines) : ~Less(lines[j].path, lines[i].path)}

\* C8: in the -d report every listed bucket has at least two members; a
\* single tied member is omitted, several tied members are each marked, and
\* every other member is printed plainly, whatever -n and -N are.
C8_TieBreakDisplay ==
    (pc = "done" /\ duplicatesFlag) =>
        \A h \in DOMAIN printed :
            LET lines == printed[h].lines IN
            /\ Len(lines) >= 2
            /\ \A i \in 1..Len(lines) :
                  lines[i].how = IF i \notin Tied(lines) THEN "plain"
                                 ELSE IF Cardinality(Tied(lines)) = 1 THEN "omitted"
                                 ELSE "marked"

\* p is d or lies under d.
Under(p, d) == p = d \/ HasPrefix(p, d \o <<Slash>>)

\* The directories some symbolic link resolves to.
LinkedDirs == {EvalSymlinks(l) : l \in Symlinks} \cap Dirs

\* D is, or lies under, a directory given as a root.
GivenDirectly(D) ==
    \E i \in 1..Len(paths) : Clean(paths[i]) \in Dirs /\ Under(D, Clean(paths[i]))

\* D is, or lies under, the directory a root symlink resolves to, and links
\* are followed.
GivenByRootLink(D) ==
    /\ followLinksFlag
    /\ \E i \in 1..Len(paths) : /\ Clean(paths[i]) \in Symlinks
                                /\ Under(D, EvalSymlinks(paths[i]))

TraversalKinds == {"walk", "visit", "readdir", "process"}

\* Nothing in or under D has been walked, visited, read or processed.
Untouched(D) ==
    \A e \in events : e[1] \in TraversalKinds => ~Under(Clean(e[2]), D)

\* Links are looked through only with -l, a file reached through a link is
\* processed under its resolved path, and no link path is in the index.
LinkedFilesPolicy ==
    /\ \A p \in Members(filesByHash) : Clean(p) \notin Symlinks
    /\ \A e \in events : e[1] = "follow" => followLinksFlag
    /\ lastCall.via # Empty =>
          /\ followLinksFlag
          /\ Clean(lastCall.via) \in Symlinks
          /\ lastCall.path = EvalSymlinks(lastCall.via)
          /\ lastCall.path \in Regulars

\* C9 as claimed: the policy for links to files, and no directory that a link
\* resolves to has its contents walked because of the link, be the link a
\* directory entry or a root.
C9_SymlinkPolicy ==
    /\ LinkedFilesPolicy
    /\ \A D \in LinkedDirs : ~GivenDirectly(D) => Untouched(D)

\* C9 amended: the policy for links to files; a link met as a directory
\* entry never has the directory it resolves to walked; a link given as a
\* root and resolving to a directory is skipped without -l and walked as a
\* directory root with -l.
C9_SymlinkPolicyEntries ==
    /\ LinkedFilesPolicy
    /\ \A D \in LinkedDirs :
          (~GivenDirectly(D) /\ ~GivenByRootLink(D)) => Untouched(D)
    /\ \A i \in 1..(rootIdx - 1) :
          (/\ Clean(paths[i]) \in Symlinks
           /\ EvalSymlinks(paths[i]) \in Dirs
           /\ ~Fails("lstat", Clean(paths[i]))
           /\ ~Fails("stat", EvalSymlinks(paths[i])))
          => (followLinksFlag <=> <<"walk", EvalSymlinks(paths[i])>> \in events)

C9_Witness ==
    /\ followLinksFlag
    /\ recursiveFlag
    /\ lastCall.via = pDl
    /\ lastCall.path = pDa
    /\ pDa \in Members(filesByHash)
    /\ <<"visit", pDk>> \in events
    /\ Untouched(pE)

\* A file that can be stat'ed and, unless empty, hashed.
FileOk(p) ==
    /\ ~Fails("stat", Clean(p))
    /\ (Len(content[Clean(p)]) = 0 \/ ~hashFile(p, hashAlgo).err)

\* The files a walk of dir yields when every error skips one entry only.
RECURSIVE ExpectedUnder(_)
ExpectedEntry(e) ==
    IF Fails("info", Clean(e)) \/ Base(e) \in Housekeeping THEN {}
    ELSE IF Clean(e) \in Dirs
    THEN IF recursiveFlag THEN ExpectedUnder(e) ELSE {}
    ELSE IF Clean(e) \in Symlinks
    THEN IF /\ followLinksFlag
            /\ ~EvalFails(e)
            /\ EvalSymlinks(e) \in Regulars
            /\ FileOk(EvalSymlinks(e))
         THEN {EvalSymlinks(e)} ELSE {}
    ELSE IF FileOk(e) THEN {e} ELSE {}

ExpectedUnder(dir) ==
    IF Fails("readdir", Clean(dir)) THEN {}
    ELSE UNION {ExpectedEntry(ReadDir(dir)[i]) : i \in 1..Len(ReadDir(dir))}

\* The files a root yields: itself, or what its walk yields.
ExpectedRoot(root) ==
    LET target == IF Clean(root) \in Symlinks THEN EvalSymlinks(root) ELSE root IN
    IF Fails("lstat", Clean(root)) \/ Clean(root) \notin Nodes THEN {}
    ELSE IF Clean(root) \in Symlinks /\ (~followLinksFlag \/ EvalFails(root)) THEN {}
    ELSE IF Fails("stat", Clean(target)) THEN {}
    ELSE IF Clean(target) \in Dirs THEN ExpectedUnder(target)
    ELSE IF FileOk(target) THEN {target} ELSE {}

\* C10: when the run is over, every accessible file of every accessible root
\* is in the index, whatever error some other entry or root met.
C10_ErrorsSkipOneEntry ==
    pc = "done" =>
        \A i \in 1..Len(paths) : ExpectedRoot(paths[i]) \subseteq Members(filesByHash)

(***************************************************************************)
(* Traversal scoping                                                       *)
(***************************************************************************)
\* The entries of a directory, and the entries at every depth under it.
Immediate(dir) == {ReadDir(dir)[i] : i \in 1..Len(ReadDir(dir))}

RECURSIVE Beneath(_)
Beneath(dir) ==
    Immediate(dir)
    \cup UNION {Beneath(e) : e \in {x \in Immediate(dir) : Clean(x) \in Dirs}}

\* The regular files among some entries; the housekeeping names are not
\* candidates.
Candidates(entries) ==
    {e \in entries : Clean(e) \in Regulars /\ Base(e) \notin Housekeeping}

\* What the run has visited and processed at or below a directory.
VisitedUnder(dir) == {e[2] : e \in {x \in events : x[1] = "visit" /\ Under(x[2], dir)}}
ProcessedUnder(dir) ==
    {e[2] : e \in {x \in events : x[1] = "process" /\ Under(x[2], dir)}}

\* The loop over the roots is past root number i.
RootDone(i) == i < rootIdx /\ pc \in {"roots", "done"}

\* C11: in a run no system call fails in, for every root that is a directory:
\* without -r the walk visits the root and its immediate entries only, and
\* has processed exactly the regular files among them when it is over; with
\* -r it has processed the regular files at every depth.
C11_TraversalScope ==
    fault = NoFault =>
        \A i \in 1..Len(paths) :
            Clean(paths[i]) \in Dirs =>
                IF recursiveFlag
                THEN RootDone(i) =>
                        Candidates(Beneath(paths[i])) \subseteq ProcessedUnder(paths[i])
                ELSE /\ VisitedUnder(paths[i]) \subseteq {paths[i]} \cup Immediate(paths[i])
                     /\ RootDone(i) =>
                            ProcessedUnder(paths[i]) = Candidates(Immediate(paths[i]))

(***************************************************************************)
(* Grouping                                                                *)
(***************************************************************************)
\* Both files are empty, or neither is and the digests of what they hold now
\* are equal.
SameContentClass(p, q) ==
    LET a == content[Clean(p)]
        b == content[Clean(q)]
    IN  \/ Len(a) = 0 /\ Len(b) = 0
        \/ /\ Len(a) > 0
           /\ Len(b) > 0
           /\ Digest(hashAlgo, a) = Digest(hashAlgo, b)

\* Two members share a bucket exactly when their contents are of one class.
GroupedByContent(index) ==
    \A s, t \in Slots(index) :
        (s[1] = t[1]) <=> SameContentClass(index[s[1]][s[2]], index[t[1]][t[2]])

\* The run prints a report of the duplicates.
Reports ==
    \/ DebugOverride(duplicatesFlag, debugFlag)
    \/ DebugOverride(verboseFlag, debugFlag)

\* No attribute that the run would trust differs from the digest of the
\* file's content.
AttrsFresh ==
    StoreOnly =>
        \A f \in Regulars : xattr0[f] \in {NoAttr, Digest(hashAlgo, content[f])}

\* C12 as stated: under every cache policy two members of the index share a
\* bucket iff both files are empty or both are not and their current
\* contents have equal digests, and the report lists a bucket iff it has two
\* members or more.
C12_GroupByContent ==
    /\ GroupedByContent(filesByHash)
    /\ pc = "done" =>
          DOMAIN printed = {h \in DOMAIN filesByHash : Len(filesByHash[h]) >= 2}

\* C12: when no attribute the policy reads is stale, two members of the
\* index share a bucket iff both files are empty or both are not and their
\* current contents have equal digests; a run that prints a report lists a
\* bucket iff it has two members or more and is not the zero-length bucket
\* under -z.
C12_GroupByContentWhenFresh ==
    AttrsFresh =>
        /\ GroupedByContent(filesByHash)
        /\ (pc = "done" /\ Reports) =>
              DOMAIN printed =
                  {h \in DOMAIN filesByHash :
                      Len(filesByHash[h]) >= 2 /\ ~(h = ZeroKey /\ skipZeroSized)}

\* A second run under UseCacheThenStore took a file from the cache, and its
\* report lists a bucket of two files, leaves out the zero-length bucket of
\* two under -z, and the index has another bucket besides.
C12_Witness ==
    /\ pc = "done"
    /\ run = 2
    /\ StoreOnly
    /\ AttrsFresh
    /\ skipZeroSized
    /\ ZeroKey \in DOMAIN filesByHash
    /\ Len(filesByHash[ZeroKey]) >= 2
    /\ ZeroKey \notin DOMAIN printed
    /\ \E p \in Members(filesByHash) :
          <<"xattrget", p>> \in events /\ <<"digest", p>> \notin events
    /\ \E h \in DOMAIN printed :
          \E i, j \in 1..Len(filesByHash[h]) : filesByHash[h][i] # filesByHash[h][j]

(***************************************************************************)
(* Housekeeping entries                                                    *)
(***************************************************************************)
\* The path names a housekeeping entry, or lies inside a directory that
\* does.
IsHousekeeping(p) == Base(p) \in Housekeeping

InsideHousekeeping(p) ==
    \E k \in 2..Len(p) : p[k] = Slash /\ IsHousekeeping(SubSeq(p, 1, k - 1))

\* C13: no path with a housekeeping name is inserted in the index or handed
\* to ProcessOneFile (which counts it), as an entry, as the target of a
\* followed link or as a root, and no directory with such a name is read or
\* has its entries visited.
C13_HousekeepingExcluded ==
    /\ \A p \in Members(filesByHash) : ~IsHousekeeping(p)
    /\ \A e \in events :
          /\ e[1] = "process" => ~IsHousekeeping(e[2])
          /\ e[1] \in {"walk", "readdir"} => ~IsHousekeeping(e[2])
          /\ e[1] = "visit" => ~InsideHousekeeping(e[2])

(***************************************************************************)
(* Debug mode                                                              *)
(***************************************************************************)
\* How many `hash path` lines debug mode printed for a hash and a path, and
\* how many times the index holds the path under the hash.
FileLines(h, p) ==
    Cardinality({i \in 1..Len(debugOut) :
                    /\ debugOut[i].kind = "file"
                    /\ debugOut[i].hash = h
                    /\ debugOut[i].path = p})

Insertions(h, p) ==
    IF h \in DOMAIN filesByHash
    THEN Cardinality({i \in 1..Len(filesByHash[h]) : filesByHash[h][i] = p})
    ELSE 0

LineKeys ==
    {<<debugOut[i].hash, debugOut[i].path>> :
        i \in {j \in 1..Len(debugOut) : debugOut[j].kind = "file"}}
SlotKeys == {<<hi[1], filesByHash[hi[1]][hi[2]]>> : hi \in Slots(filesByHash)}

\* C14: in debug mode there is one `hash path` line for each insertion in
\* the index, the zero-length files with the 0-byte-file key among them, and
\* no line else; no progress mark, no time and no report is printed.
C14_DebugOutput ==
    debugFlag =>
        /\ \A k \in SlotKeys \cup LineKeys :
              FileLines(k[1], k[2]) = Insertions(k[1], k[2])
        /\ progressOut = <<>>
        /\ ~timeOut
        /\ printed = NoIndex

(***************************************************************************)
(* The index during the walk                                               *)
(***************************************************************************)
\* new is old with p added at the end of one bucket, which is created when
\* old has none for the key; every other bucket is as it was.
AppendsOne(old, new, p) ==
    \E h \in DOMAIN new :
        /\ DOMAIN new = DOMAIN old \cup {h}
        /\ \A k \in DOMAIN old \ {h} : new[k] = old[k]
        /\ new[h] = (IF h \in DOMAIN old THEN old[h] ELSE <<>>) \o <<p>>

\* A step of the loop over the roots or of a walk: any step but the report
\* and the start of another run.
WalkPhaseStep == pc \in {"roots", "walk"} /\ pc' # "done"

\* C15: every step taken before the report leaves the index as it is or,
\* when it calls ProcessOneFile, adds the path of the call at the end of
\* exactly one bucket; nothing is removed or reordered.
C15_AppendOnly ==
    [][WalkPhaseStep =>
          \/ filesByHash' = filesByHash
          \/ CalledNext /\ AppendsOne(filesByHash, filesByHash', lastCall'.path)]_vars

\* In the middle of a walk the call just made has put its file at the end
\* of a bucket that held another file already, next to another bucket.
C15_Witness ==
    /\ pc = "walk"
    /\ Called
    /\ Cardinality(DOMAIN filesByHash) >= 2
    /\ \E h \in DOMAIN filesByHash :
          /\ Len(filesByHash[h]) >= 2
          /\ filesByHash[h][Len(filesByHash[h])] = lastCall.path
          /\ filesByHash[h][1] # lastCall.path

(***************************************************************************)
(* The sentinel bucket                                                     *)
(***************************************************************************)
\* The members of the 0-byte-file bucket.
SentinelMembers ==
    IF ZeroKey \in DOMAIN filesByHash
    THEN {filesByHash[ZeroKey][i] : i \in 1..Len(filesByHash[ZeroKey])}
    ELSE {}

\* No file that is not empty carries the sentinel as the attribute a run
\* under UseCacheThenStore would read.
NoSentinelAttr ==
    StoreOnly => \A f \in Regulars : Len(content[f]) > 0 => xattr0[f] # ZeroKey

\* C16 as stated: under every policy and whatever the attributes hold, the
\* 0-byte-file bucket holds paths of empty files only.
C16_SentinelOnlyEmpty ==
    \A p \in SentinelMembers : Len(content[Clean(p)]) = 0

\* C16: the 0-byte-file bucket holds paths of empty files only, under None
\* and AlwaysRecompute whatever the attributes hold, and under
\* UseCacheThenStore when no stored attribute of a non-empty file is the
\* sentinel string itself.
C16_SentinelOnlyEmptyUnlessCached ==
    NoSentinelAttr => \A p \in SentinelMembers : Len(content[Clean(p)]) = 0

\* A second run under UseCacheThenStore has an empty file in the sentinel
\* bucket and has taken a non-empty file from the cache into another one.
C16_Witness ==
    /\ StoreOnly
    /\ run = 2
    /\ SentinelMembers # {}
    /\ \E h \in DOMAIN filesByHash \ {ZeroKey} :
          \E i \in 1..Len(filesByHash[h]) :
              /\ Len(content[Clean(filesByHash[h][i])]) > 0
              /\ <<"xattrget", filesByHash[h][i]>> \in events
              /\ <<"digest", filesByHash[h][i]>> \notin events

====
